---- MODULE Spec2Model ----
(***************************************************************************)
(* Model of the emulator MMU in core/src/emu/mmu.rs: a frame pool          *)
(* (PageFrames), the mapping table, mmap/munmap and the read/write paths   *)
(* with their page-boundary splitting.                                     *)
(*                                                                         *)
(* Scaling: a page is PAGE_SIZE bytes (0x1000 in the source); the address  *)
(* space modelled is the pages 0 .. NumPages-1 (byte addresses far below   *)
(* 2^64, so `addr + len` never wraps).  PFNs are 0-based as in the source; *)
(* TLA+ sequences are 1-based, so frame pfn is frames[pfn + 1].            *)
(***************************************************************************)
EXTENDS Integers, Sequences, FiniteSets, TLC

\* ---------------------------------------------------------------- bounds
\* bytes per page in the model (the source has 0x1000)
PAGE_SIZE == 4
\* pages of the modelled address space
NumPages == 3
\* calls of mmap, munmap and of the writers along one behaviour
MaxMaps == 2
MaxUnmaps == 1
MaxWrites == 2
\* calls along one behaviour
MaxCalls == 4
\* frame pool length in the pool-only specification
MaxFrames == 3

\* ------------------------------------------------------------- constants
\* u32::MAX in the source; TLC's integers are 32-bit signed, so the largest
\* of them stands for the sentinel
INVALID_PFN == 2147483647

PERM_R == "PERM_R"
PERM_W == "PERM_W"
PERM_X == "PERM_X"
ZERO == "ZERO"
COW == "COW"

EMPTY_PAGE == [i \in 1..PAGE_SIZE |-> 0]

\* ------------------------------------------------------------- utilities
SetMin(S) == CHOOSE x \in S : \A y \in S : x <= y

Zeros(n) == [i \in 1..n |-> 0]

RECURSIVE Pow256(_)
Pow256(n) == IF n = 0 THEN 1 ELSE 256 * Pow256(n - 1)

\* byteorder::LittleEndian::write_uN: byte i of the buffer is bits 8i..8i+7
LittleEndian_write(value, n) == [i \in 1..n |-> (value \div Pow256(i - 1)) % 256]

\* byteorder::LittleEndian::read_uN
RECURSIVE LittleEndian_read(_)
LittleEndian_read(buf) ==
    IF Len(buf) = 0 THEN 0
    ELSE buf[1] + 256 * LittleEndian_read(Tail(buf))

\* ------------------------------------------------------- address helpers
is_page_aligned(va) == va % PAGE_SIZE = 0

page_number(va) == (va \div PAGE_SIZE) * PAGE_SIZE

page_offset(va) == va % PAGE_SIZE

\* ---------------------------------------------------------------- results
OkRes == [ok |-> TRUE, err |-> "None", va |-> 0, buf |-> <<>>, val |-> 0]
OkBuf(b) == [ok |-> TRUE, err |-> "None", va |-> 0, buf |-> b, val |-> 0]
Fault(e, a) == [ok |-> FALSE, err |-> e, va |-> a, buf |-> <<>>, val |-> 0]
PanicRes == [ok |-> FALSE, err |-> "Panic", va |-> 0, buf |-> <<>>, val |-> 0]

\* ------------------------------------------------------------ PageFrames
PageFramesDefault == [frames |-> <<>>, allocation_bitmap |-> <<>>]

\* allocate that never reuses a freed frame
allocate_grow_only(pf) ==
    [pages |-> [frames |-> Append(pf.frames, EMPTY_PAGE),
                allocation_bitmap |-> Append(pf.allocation_bitmap, TRUE)],
     pfn |-> Len(pf.frames)]

\* allocate that looks for the first set bit instead of the first clear one
allocate_first_set(pf) ==
    LET used == {i \in 1..Len(pf.allocation_bitmap) : pf.allocation_bitmap[i]}
    IN IF used # {}
       THEN [pages |-> [pf EXCEPT !.allocation_bitmap[SetMin(used)] = TRUE],
             pfn |-> SetMin(used) - 1]
       ELSE [pages |-> [frames |-> Append(pf.frames, EMPTY_PAGE),
                        allocation_bitmap |-> Append(pf.allocation_bitmap, TRUE)],
             pfn |-> Len(pf.frames)]

\* PageFrames::allocate: first clear bit, else push a new frame
allocate(pf) ==
    LET free == {i \in 1..Len(pf.allocation_bitmap) : ~pf.allocation_bitmap[i]}
    IN IF free # {}
       THEN [pages |-> [pf EXCEPT !.allocation_bitmap[SetMin(free)] = TRUE],
             pfn |-> SetMin(free) - 1]
       ELSE [pages |-> [frames |-> Append(pf.frames, EMPTY_PAGE),
                        allocation_bitmap |-> Append(pf.allocation_bitmap, TRUE)],
             pfn |-> Len(pf.frames)]

\* the assertion of PageFrames::deallocate
deallocate_ok(pf, pfn) ==
    /\ pfn < Len(pf.allocation_bitmap)
    /\ pf.allocation_bitmap[pfn + 1]

\* deallocate that clears the bit and keeps the frame's bytes
deallocate_keeps_bytes(pf, pfn) ==
    [frames |-> pf.frames,
     allocation_bitmap |-> [pf.allocation_bitmap EXCEPT ![pfn + 1] = FALSE]]

\* PageFrames::deallocate (when its assertion holds)
deallocate(pf, pfn) ==
    [frames |-> [pf.frames EXCEPT ![pfn + 1] = EMPTY_PAGE],
     allocation_bitmap |-> [pf.allocation_bitmap EXCEPT ![pfn + 1] = FALSE]]

\* Index / IndexMut for PageFrames: a plain Vec index, bounds-checked only
index_ok(pf, pfn) == pfn < Len(pf.frames)

index(pf, pfn) == pf.frames[pfn + 1]

index_mut_store(pf, pfn, frame) == [pf EXCEPT !.frames[pfn + 1] = frame]

\* ------------------------------------------------------------------- MMU
Entry(pfn, flags) == [pfn |-> pfn, flags |-> flags]

\* PageFlags::all(): the bits from_bits_truncate keeps
PageFlags_all == {PERM_R, PERM_W, PERM_X, ZERO, COW}

\* the result of an operation that also yields the new MMU state
Out(pf, m, r) == [pages |-> pf, mapping |-> m, res |-> r]

\* mmap that inserts page after page until it meets a mapped one
mmap_partial(pf, m, addr, size, perms) ==
    LET page_count == size \div PAGE_SIZE
        conflicts == {i \in 0..(page_count - 1) : (addr + i * PAGE_SIZE) \in DOMAIN m}
        upto == IF conflicts # {} THEN SetMin(conflicts) ELSE page_count
        new == {addr + i * PAGE_SIZE : i \in 0..(upto - 1)}
        flags == {ZERO} \cup (perms \cap PageFlags_all)
        m1 == [va \in (DOMAIN m) \cup new |->
                  IF va \in new THEN [pfn |-> INVALID_PFN, flags |-> flags] ELSE m[va]]
    IN IF conflicts # {}
       THEN [pages |-> pf, mapping |-> m1,
             res |-> Fault("AddressAlreadyMapped", addr + SetMin(conflicts) * PAGE_SIZE)]
       ELSE [pages |-> pf, mapping |-> m1, res |-> OkRes]

\* the frames mmap_allocating takes for pages i .. page_count-1
RECURSIVE allocate_pages(_, _, _, _, _, _)
allocate_pages(pf, m, addr, i, page_count, flags) ==
    IF i >= page_count THEN Out(pf, m, OkRes)
    ELSE LET a == allocate(pf)
             page_va == addr + i * PAGE_SIZE
         IN allocate_pages(a.pages,
                           [va \in (DOMAIN m) \cup {page_va} |->
                               IF va = page_va THEN Entry(a.pfn, flags) ELSE m[va]],
                           addr, i + 1, page_count, flags)

\* mmap that backs every page with a frame at map time
mmap_allocating(pf, m, addr, size, perms) ==
    LET page_count == size \div PAGE_SIZE
        conflicts == {i \in 0..(page_count - 1) : (addr + i * PAGE_SIZE) \in DOMAIN m}
    IN IF conflicts # {}
       THEN Out(pf, m, Fault("AddressAlreadyMapped", addr + SetMin(conflicts) * PAGE_SIZE))
       ELSE allocate_pages(pf, m, addr, 0, page_count, perms \cap PageFlags_all)

\* MMU::mmap
mmap(pf, m, addr, size, perms) ==
    LET page_count == size \div PAGE_SIZE
        conflicts == {i \in 0..(page_count - 1) : (addr + i * PAGE_SIZE) \in DOMAIN m}
        new == {addr + i * PAGE_SIZE : i \in 0..(page_count - 1)}
        flags == {ZERO} \cup (perms \cap PageFlags_all)
    IN IF conflicts # {}
       THEN Out(pf, m, Fault("AddressAlreadyMapped", addr + SetMin(conflicts) * PAGE_SIZE))
       ELSE Out(pf,
                [va \in (DOMAIN m) \cup new |->
                    IF va \in new THEN Entry(INVALID_PFN, flags) ELSE m[va]],
                OkRes)

\* the removal loop of MMU::munmap, pages i .. page_count-1
RECURSIVE munmap_loop(_, _, _, _, _)
munmap_loop(pf, m, addr, i, page_count) ==
    IF i >= page_count THEN Out(pf, m, OkRes)
    ELSE LET page_va == addr + i * PAGE_SIZE
             e == m[page_va]
             rest == [va \in (DOMAIN m) \ {page_va} |-> m[va]]
         IN IF ZERO \notin e.flags
            THEN IF deallocate_ok(pf, e.pfn)
                 THEN munmap_loop(deallocate(pf, e.pfn), rest, addr, i + 1, page_count)
                 ELSE Out(pf, rest, PanicRes)
            ELSE IF e.pfn = INVALID_PFN
                 THEN munmap_loop(pf, rest, addr, i + 1, page_count)
                 ELSE Out(pf, rest, PanicRes)

\* munmap that removes page after page until it meets an unmapped one
munmap_eager(pf, m, addr, size) ==
    LET page_count == size \div PAGE_SIZE
        missing == {i \in 0..(page_count - 1) : (addr + i * PAGE_SIZE) \notin DOMAIN m}
    IN IF missing # {}
       THEN [munmap_loop(pf, m, addr, 0, SetMin(missing)) EXCEPT
                !.res = Fault("AddressNotMapped", addr + SetMin(missing) * PAGE_SIZE)]
       ELSE munmap_loop(pf, m, addr, 0, page_count)

\* munmap that removes the entries and returns no frame to the pool
munmap_leaking(pf, m, addr, size) ==
    LET page_count == size \div PAGE_SIZE
        range == {addr + i * PAGE_SIZE : i \in 0..(page_count - 1)}
    IN IF range \ DOMAIN m # {}
       THEN Out(pf, m, Fault("AddressNotMapped", SetMin(range \ DOMAIN m)))
       ELSE Out(pf, [va \in (DOMAIN m) \ range |-> m[va]], OkRes)

\* MMU::munmap
munmap(pf, m, addr, size) ==
    LET page_count == size \div PAGE_SIZE
        missing == {i \in 0..(page_count - 1) : (addr + i * PAGE_SIZE) \notin DOMAIN m}
    IN IF missing # {}
       THEN Out(pf, m, Fault("AddressNotMapped", addr + SetMin(missing) * PAGE_SIZE))
       ELSE munmap_loop(pf, m, addr, 0, page_count)

\* the result of a probe
Probe(r, pfn, flags) == [res |-> r, pfn |-> pfn, flags |-> flags]

\* MMU::probe_read
probe_read(m, addr) ==
    IF page_number(addr) \notin DOMAIN m
    THEN Probe(Fault("AddressNotMapped", addr), INVALID_PFN, {})
    ELSE LET e == m[page_number(addr)]
         IN IF PERM_R \notin e.flags
            THEN Probe(Fault("AddressNotReadable", addr), INVALID_PFN, {})
            ELSE Probe(OkRes, e.pfn, e.flags)

\* one half of MMU::read: n bytes at offset off of the probed page;
\* <<>> of length # n never arises, a failed assertion or index is "panic"
read_part_ok(pf, p) ==
    IF ZERO \in p.flags THEN p.pfn = INVALID_PFN ELSE index_ok(pf, p.pfn)

read_part(pf, p, off, n) ==
    IF ZERO \in p.flags THEN Zeros(n)
    ELSE SubSeq(index(pf, p.pfn), off + 1, off + n)

\* the test that sends MMU::read and MMU::write down the split path
is_split(addr, len) == page_number(addr) # page_number(addr + len)

\* MMU::read
read(pf, m, addr, len) ==
    IF is_split(addr, len)
    THEN LET off == page_offset(addr)
             first_size == PAGE_SIZE - off
             second_size == len - first_size
             p1 == probe_read(m, addr)
             next_page_addr == addr + first_size
             p2 == probe_read(m, next_page_addr)
         IN IF ~p1.res.ok THEN p1.res
            ELSE IF ~read_part_ok(pf, p1) THEN PanicRes
            ELSE IF ~p2.res.ok THEN p2.res
            ELSE IF ~read_part_ok(pf, p2) THEN PanicRes
            ELSE OkBuf(read_part(pf, p1, off, first_size) \o read_part(pf, p2, 0, second_size))
    ELSE LET p == probe_read(m, addr)
         IN IF ~p.res.ok THEN p.res
            ELSE IF ~read_part_ok(pf, p) THEN PanicRes
            ELSE OkBuf(read_part(pf, p, page_offset(addr), len))

\* MMU::read_u8 .. read_u128 (w bytes, little-endian) and MMU::read_page
read_uN(pf, m, addr, w) ==
    LET r == read(pf, m, addr, w)
    IN IF r.ok THEN [r EXCEPT !.val = LittleEndian_read(r.buf)] ELSE r

read_page(pf, m, addr) == read(pf, m, addr, PAGE_SIZE)

\* the result of a write probe: the probe and the MMU state it leaves
WProbe(pf, m, r, pfn, flags) ==
    [pages |-> pf, mapping |-> m, res |-> r, pfn |-> pfn, flags |-> flags]

\* probe_write that materializes before it checks PERM_W
probe_write_materialize_first(pf, m, addr) ==
    IF page_number(addr) \notin DOMAIN m
    THEN WProbe(pf, m, Fault("AddressNotMapped", addr), INVALID_PFN, {})
    ELSE LET e == m[page_number(addr)]
             a == allocate(pf)
             flags == (e.flags \ {ZERO}) \ {COW}
             lazy == ZERO \in e.flags
             pf1 == IF lazy THEN index_mut_store(a.pages, a.pfn, EMPTY_PAGE) ELSE pf
             m1 == IF lazy THEN [m EXCEPT ![page_number(addr)] = Entry(a.pfn, flags)] ELSE m
         IN IF PERM_W \notin e.flags
            THEN WProbe(pf1, m1, Fault("AddressNotWritable", addr), INVALID_PFN, {})
            ELSE WProbe(pf1, m1, OkRes, m1[page_number(addr)].pfn, m1[page_number(addr)].flags)

\* probe_write that leaves ZERO and COW set in the entry it rewrites
probe_write_keeps_flags(pf, m, addr) ==
    IF page_number(addr) \notin DOMAIN m
    THEN WProbe(pf, m, Fault("AddressNotMapped", addr), INVALID_PFN, {})
    ELSE LET e == m[page_number(addr)]
         IN IF PERM_W \notin e.flags
            THEN WProbe(pf, m, Fault("AddressNotWritable", addr), INVALID_PFN, {})
            ELSE IF ZERO \in e.flags \/ COW \in e.flags
            THEN LET a == allocate(pf)
                 IN WProbe(index_mut_store(a.pages, a.pfn, EMPTY_PAGE),
                           [m EXCEPT ![page_number(addr)] = Entry(a.pfn, e.flags)],
                           OkRes, a.pfn, e.flags)
            ELSE WProbe(pf, m, OkRes, e.pfn, e.flags)

\* probe_write that copies the page into a new frame on every probe
probe_write_always_copies(pf, m, addr) ==
    IF page_number(addr) \notin DOMAIN m
    THEN WProbe(pf, m, Fault("AddressNotMapped", addr), INVALID_PFN, {})
    ELSE LET e == m[page_number(addr)]
         IN IF PERM_W \notin e.flags
            THEN WProbe(pf, m, Fault("AddressNotWritable", addr), INVALID_PFN, {})
            ELSE LET snapshot == IF ZERO \in e.flags THEN EMPTY_PAGE ELSE index(pf, e.pfn)
                     a == allocate(pf)
                     flags == (e.flags \ {ZERO}) \ {COW}
                 IN WProbe(index_mut_store(a.pages, a.pfn, snapshot),
                           [m EXCEPT ![page_number(addr)] = Entry(a.pfn, flags)],
                           OkRes, a.pfn, flags)

\* MMU::probe_write
probe_write(pf, m, addr) ==
    IF page_number(addr) \notin DOMAIN m
    THEN WProbe(pf, m, Fault("AddressNotMapped", addr), INVALID_PFN, {})
    ELSE LET e == m[page_number(addr)]
         IN IF PERM_W \notin e.flags
            THEN WProbe(pf, m, Fault("AddressNotWritable", addr), INVALID_PFN, {})
            ELSE IF ZERO \in e.flags \/ COW \in e.flags
            THEN IF ZERO \notin e.flags /\ ~index_ok(pf, e.pfn)
                 THEN WProbe(pf, m, PanicRes, INVALID_PFN, {})
                 ELSE LET snapshot == IF ZERO \in e.flags THEN EMPTY_PAGE ELSE index(pf, e.pfn)
                          a == allocate(pf)
                          flags == (e.flags \ {ZERO}) \ {COW}
                      IN WProbe(index_mut_store(a.pages, a.pfn, snapshot),
                                [m EXCEPT ![page_number(addr)] = Entry(a.pfn, flags)],
                                OkRes, a.pfn, flags)
            ELSE WProbe(pf, m, OkRes, e.pfn, e.flags)

\* a store that rebuilds the frame from zeros and the bytes
store_bytes_fresh_frame(pf, pfn, off, bytes) ==
    [pf EXCEPT !.frames[pfn + 1] =
        [i \in 1..PAGE_SIZE |->
            IF i > off /\ i <= off + Len(bytes) THEN bytes[i - off] ELSE 0]]

\* copy_from_slice of bytes into frame pfn at offset off
store_bytes(pf, pfn, off, bytes) ==
    [pf EXCEPT !.frames[pfn + 1] =
        [i \in 1..PAGE_SIZE |->
            IF i > off /\ i <= off + Len(bytes) THEN bytes[i - off] ELSE @[i]]]

\* write whose second half copies from the start of the buffer
write_second_from_start(pf, m, addr, buf) ==
    IF is_split(addr, Len(buf))
    THEN LET off == page_offset(addr)
             first_size == PAGE_SIZE - off
             second_size == Len(buf) - first_size
             p1 == probe_write(pf, m, addr)
             pf1 == store_bytes(p1.pages, p1.pfn, off, SubSeq(buf, 1, first_size))
             p2 == probe_write(pf1, p1.mapping, addr + first_size)
         IN IF ~p1.res.ok THEN Out(p1.pages, p1.mapping, p1.res)
            ELSE IF ~p2.res.ok THEN Out(p2.pages, p2.mapping, p2.res)
            ELSE Out(store_bytes(p2.pages, p2.pfn, 0, SubSeq(buf, 1, second_size)),
                     p2.mapping, OkRes)
    ELSE LET p == probe_write(pf, m, addr)
         IN IF ~p.res.ok THEN Out(p.pages, p.mapping, p.res)
            ELSE Out(store_bytes(p.pages, p.pfn, page_offset(addr), buf), p.mapping, OkRes)

\* write whose split path stores the first half at the start of the page
write_first_at_page_start(pf, m, addr, buf) ==
    IF is_split(addr, Len(buf))
    THEN LET off == page_offset(addr)
             first_size == PAGE_SIZE - off
             p1 == probe_write(pf, m, addr)
             pf1 == store_bytes(p1.pages, p1.pfn, 0, SubSeq(buf, 1, first_size))
             p2 == probe_write(pf1, p1.mapping, addr + first_size)
         IN IF ~p1.res.ok THEN Out(p1.pages, p1.mapping, p1.res)
            ELSE IF ~p2.res.ok THEN Out(p2.pages, p2.mapping, p2.res)
            ELSE Out(store_bytes(p2.pages, p2.pfn, 0, SubSeq(buf, first_size + 1, Len(buf))),
                     p2.mapping, OkRes)
    ELSE LET p == probe_write(pf, m, addr)
         IN IF ~p.res.ok THEN Out(p.pages, p.mapping, p.res)
            ELSE Out(store_bytes(p.pages, p.pfn, page_offset(addr), buf), p.mapping, OkRes)

\* MMU::write
write(pf, m, addr, buf) ==
    IF is_split(addr, Len(buf))
    THEN LET off == page_offset(addr)
             first_size == PAGE_SIZE - off
             p1 == probe_write(pf, m, addr)
             pf1 == store_bytes(p1.pages, p1.pfn, off, SubSeq(buf, 1, first_size))
             next_page_addr == addr + first_size
             p2 == probe_write(pf1, p1.mapping, next_page_addr)
         IN IF ~p1.res.ok THEN Out(p1.pages, p1.mapping, p1.res)
            ELSE IF ~index_ok(p1.pages, p1.pfn) THEN Out(p1.pages, p1.mapping, PanicRes)
            ELSE IF ~p2.res.ok THEN Out(p2.pages, p2.mapping, p2.res)
            ELSE IF ~index_ok(p2.pages, p2.pfn) THEN Out(p2.pages, p2.mapping, PanicRes)
            ELSE Out(store_bytes(p2.pages, p2.pfn, 0, SubSeq(buf, first_size + 1, Len(buf))),
                     p2.mapping, OkRes)
    ELSE LET p == probe_write(pf, m, addr)
         IN IF ~p.res.ok THEN Out(p.pages, p.mapping, p.res)
            ELSE IF ~index_ok(p.pages, p.pfn) THEN Out(p.pages, p.mapping, PanicRes)
            ELSE Out(store_bytes(p.pages, p.pfn, page_offset(addr), buf), p.mapping, OkRes)

\* MMU::write_u8 .. write_u128 (w bytes, little-endian) and MMU::write_page
write_uN(pf, m, addr, w, value) == write(pf, m, addr, LittleEndian_write(value, w))

write_page(pf, m, addr, value) == write(pf, m, addr, value)

\* a second MMU instance: none yet, or the one made by clone.  `alias` tells
\* whether it shares its storage with the instance it was cloned from;
\* pages and mapping are its own storage (the values at the clone)
NoTwin == [cloned |-> FALSE, alias |-> FALSE, pages |-> PageFramesDefault, mapping |-> << >>]

\* a clone that shares the frames and the table with the original
clone_shared(pf, m) == [cloned |-> TRUE, alias |-> TRUE, pages |-> pf, mapping |-> m]

\* MMU::clone (derived): Vec<PageFrame>, BitVec and BTreeMap are owned
\* values, each is copied
clone(pf, m) == [cloned |-> TRUE, alias |-> FALSE, pages |-> pf, mapping |-> m]

\* the MMU state an instance t denotes, (pf, m) being the state of the
\* instance it was cloned from
deref(t, pf, m) ==
    IF t.alias THEN [pages |-> pf, mapping |-> m]
    ELSE [pages |-> t.pages, mapping |-> t.mapping]

\* ----------------------------------------------------------------- inputs
\* byte widths of the typed accessors u8, u16, u32 (u64 and u128 values do
\* not fit TLC's integers; their code differs from these in the width only)
Widths == {w \in {1, 2, 4} : w <= PAGE_SIZE}

\* 0x11, 0x2211, 0x44332211 as in the tests, and 0x7F, 0x7F7F, 0x7F7F7F7F
Pattern(w) == LittleEndian_read([i \in 1..w |-> 17 * i])
Values(w) == {Pattern(w), LittleEndian_read([i \in 1..w |-> 127])}

PageData == [i \in 1..PAGE_SIZE |-> 80 + i]

PageVAs == {i * PAGE_SIZE : i \in 0..(NumPages - 1)}
Addrs == 0..(NumPages * PAGE_SIZE - 1)
\* the sizes mmap and munmap are called with: one page and two pages
RangeSizes == {PAGE_SIZE, 2 * PAGE_SIZE}
\* the <<addr, size>> ranges of those calls
Ranges == {r \in PageVAs \X RangeSizes : r[1] + r[2] <= NumPages * PAGE_SIZE}
\* the offsets the typed read and write actions are called at: u8 at a page's
\* last byte, u16 at a page's start and straddling after one byte, u32
\* straddling after two bytes
CallOffsets(w) ==
    IF w = 1 THEN {PAGE_SIZE - 1}
    ELSE IF w = 2 THEN {0, PAGE_SIZE - 1}
    ELSE {PAGE_SIZE - 2}
\* the <<address, width>> pairs of those calls
TypedCalls == {c \in Addrs \X Widths : page_offset(c[1]) \in CallOffsets(c[2])}
\* the value the write actions are called with
WriteValue(w) == Pattern(w)
PermSets == {{PERM_R}, {PERM_R, PERM_W}, {PERM_W, PERM_X}}
\* the <<range, perms>> pairs mmap is called with
MmapCalls == Ranges \X PermSets

\* ------------------------------------------------------------------ state
VARIABLES pages, mapping, last, nmaps, nunmaps, nwrites, twin

vars == <<pages, mapping, last, nmaps, nunmaps, nwrites, twin>>

\* the last call: operation, arguments and result
Call(op, addr, size, perms, value, buf, res) ==
    [op |-> op, addr |-> addr, size |-> size, perms |-> perms, value |-> value,
     buf |-> buf, res |-> res]

ReadOps == {"read_u", "read_page"}
WriteOps == {"write_u", "write_page"}

\* a fault raised before any mutation: mmap and munmap fault in their
\* checking pass, a write faults with its own address in its first probe
quiet_fault(c) ==
    /\ ~c.res.ok
    /\ c.op \in {"mmap", "munmap"} \/ (c.op \in WriteOps /\ c.res.va = c.addr)

\* a panic halts the program; a behaviour ends at the first call that returns
\* with the MMU as it was, a read (the readers take &self) or a quiet fault:
\* the behaviours that go on after such a call pass through the same MMU
\* states as the behaviours without it
running == last.res.err # "Panic" /\ last.op \notin ReadOps /\ ~quiet_fault(last)

\* calls made so far (a read, being the last call, is not counted; clone is)
budget == nmaps + nunmaps + nwrites + (IF twin.cloned THEN 1 ELSE 0) < MaxCalls

Init ==
    /\ pages = PageFramesDefault
    /\ mapping = << >>
    /\ last = Call("new", 0, 0, {}, 0, <<>>, OkRes)
    /\ nmaps = 0
    /\ nunmaps = 0
    /\ nwrites = 0
    /\ twin = NoTwin

Mmap(addr, size, perms) ==
    /\ running
    /\ nmaps < MaxMaps /\ budget
    /\ is_page_aligned(addr) /\ is_page_aligned(size)
    /\ LET o == mmap(pages, mapping, addr, size, perms)
       IN /\ pages' = o.pages
          /\ mapping' = o.mapping
          /\ last' = Call("mmap", addr, size, perms, 0, <<>>, o.res)
    /\ nmaps' = nmaps + 1
    /\ UNCHANGED <<nunmaps, nwrites, twin>>

Munmap(addr, size) ==
    /\ running
    /\ nunmaps < MaxUnmaps /\ budget
    /\ is_page_aligned(addr) /\ is_page_aligned(size)
    /\ LET o == munmap(pages, mapping, addr, size)
       IN /\ pages' = o.pages
          /\ mapping' = o.mapping
          /\ last' = Call("munmap", addr, size, {}, 0, <<>>, o.res)
    /\ nunmaps' = nunmaps + 1
    /\ UNCHANGED <<nmaps, nwrites, twin>>

\* a typed read that probes with probe_write
ReadU_probing_for_write(addr, w) ==
    /\ running /\ budget
    /\ \E p \in {probe_write(pages, mapping, addr)} :
          /\ pages' = p.pages
          /\ mapping' = p.mapping
    /\ last' = Call("read_u", addr, w, {}, 0, <<>>, read_uN(pages, mapping, addr, w))
    /\ UNCHANGED <<nmaps, nunmaps, nwrites, twin>>

ReadU(addr, w) ==
    /\ running /\ budget
    /\ last' = Call("read_u", addr, w, {}, 0, <<>>, read_uN(pages, mapping, addr, w))
    /\ UNCHANGED <<pages, mapping, nmaps, nunmaps, nwrites, twin>>

ReadPage(addr) ==
    /\ running /\ budget
    /\ is_page_aligned(addr)
    /\ last' = Call("read_page", addr, PAGE_SIZE, {}, 0, <<>>, read_page(pages, mapping, addr))
    /\ UNCHANGED <<pages, mapping, nmaps, nunmaps, nwrites, twin>>

WriteU(addr, w, value) ==
    /\ running
    /\ nwrites < MaxWrites /\ budget
    /\ LET o == write_uN(pages, mapping, addr, w, value)
       IN /\ pages' = o.pages
          /\ mapping' = o.mapping
          /\ last' = Call("write_u", addr, w, {}, value, LittleEndian_write(value, w), o.res)
    /\ nwrites' = nwrites + 1
    /\ UNCHANGED <<nmaps, nunmaps, twin>>

WritePage(addr, value) ==
    /\ running
    /\ nwrites < MaxWrites /\ budget
    /\ is_page_aligned(addr) /\ Len(value) = PAGE_SIZE
    /\ LET o == write_page(pages, mapping, addr, value)
       IN /\ pages' = o.pages
          /\ mapping' = o.mapping
          /\ last' = Call("write_page", addr, PAGE_SIZE, {}, 0, value, o.res)
    /\ nwrites' = nwrites + 1
    /\ UNCHANGED <<nmaps, nunmaps, twin>>

Next ==
    \/ \E c \in MmapCalls : Mmap(c[1][1], c[1][2], c[2])
    \/ \E r \in Ranges : Munmap(r[1], r[2])
    \/ \E c \in TypedCalls : ReadU(c[1], c[2])
    \/ \E addr \in PageVAs : ReadPage(addr)
    \/ \E c \in TypedCalls : WriteU(c[1], c[2], WriteValue(c[2]))
    \/ \E addr \in PageVAs : WritePage(addr, PageData)

Spec == Init /\ [][Next]_vars

\* ------------------------------------------------- an MMU and its clone
\* clone once, at any point; mmap, munmap and the writers then go on acting
\* on the instance cloned from
Clone ==
    /\ running /\ budget
    /\ ~twin.cloned
    /\ twin' = clone(pages, mapping)
    /\ last' = Call("clone", 0, 0, {}, 0, <<>>, OkRes)
    /\ UNCHANGED <<pages, mapping, nmaps, nunmaps, nwrites>>

CloneNext ==
    \/ \E c \in MmapCalls : Mmap(c[1][1], c[1][2], c[2])
    \/ \E r \in Ranges : Munmap(r[1], r[2])
    \/ \E c \in TypedCalls : WriteU(c[1], c[2], WriteValue(c[2]))
    \/ \E addr \in PageVAs : WritePage(addr, PageData)
    \/ Clone

CloneSpec == Init /\ [][CloneNext]_vars

\* ------------------------------------------------ the frame pool by itself
\* PageFrames driven as in the tests of mod pf: allocate, deallocate of an
\* allocated frame, and a store through IndexMut into an allocated frame.
\* `addr` of the call record carries the PFN.
PoolAllocate ==
    /\ running
    /\ \/ Len(pages.frames) < MaxFrames
       \/ \E i \in 1..Len(pages.allocation_bitmap) : ~pages.allocation_bitmap[i]
    /\ LET a == allocate(pages)
       IN /\ pages' = a.pages
          /\ last' = Call("allocate", a.pfn, 0, {}, 0, <<>>, OkRes)
    /\ UNCHANGED <<mapping, nmaps, nunmaps, nwrites, twin>>

PoolDeallocate(pfn) ==
    /\ running
    /\ IF deallocate_ok(pages, pfn)
       THEN /\ pages' = deallocate(pages, pfn)
            /\ last' = Call("deallocate", pfn, 0, {}, 0, <<>>, OkRes)
       ELSE /\ pages' = pages
            /\ last' = Call("deallocate", pfn, 0, {}, 0, <<>>, PanicRes)
    /\ UNCHANGED <<mapping, nmaps, nunmaps, nwrites, twin>>

PoolStore(pfn, off, byte) ==
    /\ running
    /\ index_ok(pages, pfn)
    /\ pages.allocation_bitmap[pfn + 1]
    /\ pages' = store_bytes(pages, pfn, off, <<byte>>)
    /\ last' = Call("index_mut", pfn, 1, {}, byte, <<byte>>, OkRes)
    /\ UNCHANGED <<mapping, nmaps, nunmaps, nwrites, twin>>

PoolNext ==
    \/ PoolAllocate
    \/ \E pfn \in 0..(MaxFrames - 1) : PoolDeallocate(pfn)
    \/ \E pfn \in 0..(MaxFrames - 1), off \in {0, PAGE_SIZE - 1} : PoolStore(pfn, off, 255)

PoolSpec == Init /\ [][PoolNext]_vars

\* ------------------------------------- the index operators of the frame pool
\* PageFrames driven through Index and IndexMut with any PFN, next to
\* allocate and deallocate: both operators index the Vec of frames, whose
\* bounds check is the only check they make.
PoolIndex(pfn) ==
    /\ running
    /\ IF index_ok(pages, pfn)
       THEN last' = Call("index", pfn, 0, {}, 0, <<>>, OkBuf(index(pages, pfn)))
       ELSE last' = Call("index", pfn, 0, {}, 0, <<>>, PanicRes)
    /\ UNCHANGED <<pages, mapping, nmaps, nunmaps, nwrites, twin>>

PoolIndexMut(pfn, off, byte) ==
    /\ running
    /\ IF index_ok(pages, pfn)
       THEN /\ pages' = store_bytes(pages, pfn, off, <<byte>>)
            /\ last' = Call("index_mut", pfn, 1, {}, byte, <<byte>>, OkRes)
       ELSE /\ pages' = pages
            /\ last' = Call("index_mut", pfn, 1, {}, byte, <<byte>>, PanicRes)
    /\ UNCHANGED <<mapping, nmaps, nunmaps, nwrites, twin>>

IndexNext ==
    \/ PoolAllocate
    \/ \E pfn \in 0..(MaxFrames - 1) : PoolDeallocate(pfn)
    \/ \E pfn \in 0..(MaxFrames - 1) : PoolIndex(pfn)
    \/ \E pfn \in 0..(MaxFrames - 1), off \in {0, PAGE_SIZE - 1} : PoolIndexMut(pfn, off, 255)

IndexSpec == Init /\ [][IndexNext]_vars

\* ---------------------------------------------------- helpers of the claims
\* number of set bits of the allocation bitmap
Allocated(pf) == Cardinality({i \in 1..Len(pf.allocation_bitmap) : pf.allocation_bitmap[i]})

\* the bytes [addr, addr+len) lie in one page
InPage(addr, len) == page_number(addr) = page_number(addr + len - 1)

\* the bytes [addr, addr+len) lie in two pages
Straddles(addr, len) == page_number(addr) # page_number(addr + len - 1)

\* the mapping table without the entry of page_va
Unmapped(m, page_va) == [va \in (DOMAIN m) \ {page_va} |-> m[va]]

HasPerms(m, va, perms) ==
    /\ page_number(va) \in DOMAIN m
    /\ perms \subseteq m[page_number(va)].flags

\* the byte addresses of the range of the last mmap/munmap
LastRange == last.addr .. (last.addr + last.size - 1)

\* C1 (as stated): after a successful mmap(addr, size, perms) every byte
\* address a of [addr, addr+size) reads as zero when perms has READ and fails
\* with AddressNotReadable(a) otherwise, and write_u8(a, v) succeeds exactly
\* when perms has WRITE, whatever lies beyond the range.
C1_MmapGovernsEveryByte ==
    (last.op = "mmap" /\ last.res.ok) =>
        \A a \in LastRange :
            /\ read_uN(pages, mapping, a, 1) =
                  (IF PERM_R \in last.perms
                   THEN OkBuf(<<0>>)
                   ELSE Fault("AddressNotReadable", a))
            /\ \A v \in Values(1) :
                  write_uN(pages, mapping, a, 1, v).res.ok <=> (PERM_W \in last.perms)

\* the outcome of the last read or write call, had the page after the one
\* of its address been unmapped in the state before the call
OutcomeWithoutNextPage(pf, m, c) ==
    LET m0 == Unmapped(m, page_number(c.addr) + PAGE_SIZE)
    IN CASE c.op = "read_u" -> read_uN(pf, m0, c.addr, c.size)
         [] c.op = "read_page" -> read_page(pf, m0, c.addr)
         [] c.op = "write_u" -> write_uN(pf, m0, c.addr, c.size, c.value).res
         [] c.op = "write_page" -> write_page(pf, m0, c.addr, c.buf).res

\* C2 (as stated): a read or write whose bytes stay within one page has the
\* outcome that page's entry alone decides: the same outcome as with the
\* following page unmapped, also when its last byte is the page's last byte.
C2_InPageAccessIgnoresNextPage ==
    [][(last'.op \in ReadOps \cup WriteOps /\ InPage(last'.addr, last'.size)) =>
          last'.res = OutcomeWithoutNextPage(pages, mapping, last')]_vars

\* C3 (as stated): on a lazy-zero page mapped READ and WRITE, a read before
\* the first write returns zeros, a successful write within the page raises
\* the number of allocated frames by exactly one, and the written bytes read
\* back; at every offset and width, the page's last byte and write_page
\* included.
C3_MaterializationCostsOneFrame ==
    [][(/\ last'.op \in WriteOps
        /\ last'.res.ok
        /\ InPage(last'.addr, last'.size)
        /\ HasPerms(mapping, last'.addr, {ZERO, PERM_R, PERM_W})) =>
          /\ read(pages, mapping, last'.addr, last'.size) = OkBuf(Zeros(last'.size))
          /\ Allocated(pages') = Allocated(pages) + 1
          /\ read(pages', mapping', last'.addr, last'.size) = OkBuf(last'.buf)]_vars

\* C4 (as stated): when all w bytes at addr lie in pages mapped READ and
\* WRITE, write_w(addr, v) returns Ok and read_w(addr) then returns Ok(v):
\* inside a page, across a boundary, and at the last mapped byte.
C4_TypedRoundTrip ==
    [][(/\ last'.op = "write_u"
        /\ \A a \in last'.addr .. (last'.addr + last'.size - 1) :
              HasPerms(mapping, a, {PERM_R, PERM_W})) =>
          /\ last'.res.ok
          /\ LET r == read_uN(pages', mapping', last'.addr, last'.size)
             IN r.ok /\ r.val = last'.value]_vars

\* C5 (as stated): write_page of a page mapped READ and WRITE returns Ok and
\* read_page then returns the data; read_page of a mapped readable page
\* returns its contents (zeros when lazy-zero); neither needs the page at
\* addr + PAGE_SIZE to be mapped.
PageContents(pf, m, page_va) ==
    IF ZERO \in m[page_va].flags THEN EMPTY_PAGE ELSE index(pf, m[page_va].pfn)

C5_PageRoundTrip ==
    [][/\ (last'.op = "write_page" /\ HasPerms(mapping, last'.addr, {PERM_R, PERM_W})) =>
            /\ last'.res.ok
            /\ read_page(pages', mapping', last'.addr) = OkBuf(last'.buf)
       /\ (last'.op = "read_page" /\ HasPerms(mapping, last'.addr, {PERM_R})) =>
            last'.res = OkBuf(PageContents(pages, mapping, last'.addr))]_vars

\* the pages of [addr, addr+size) that are mapped in m
MappedPagesOf(m, addr, size) ==
    {va \in DOMAIN m : va >= addr /\ va < addr + size}

\* the pages of [addr, addr+size)
PagesOf(addr, size) == {addr + i * PAGE_SIZE : i \in 0..((size \div PAGE_SIZE) - 1)}

\* C6: when a page of [addr, addr+size) is already mapped, mmap fails with
\* AddressAlreadyMapped of the lowest such page and changes nothing: mapping
\* entries, frames and allocation bitmap are as before.
C6_MmapAllOrNothing ==
    [][(last'.op = "mmap" /\ MappedPagesOf(mapping, last'.addr, last'.size) # {}) =>
          /\ last'.res = Fault("AddressAlreadyMapped",
                               SetMin(MappedPagesOf(mapping, last'.addr, last'.size)))
          /\ pages' = pages
          /\ mapping' = mapping]_vars

\* a failed mmap whose first page was free (and is still unmapped) and
\* whose conflict is a later page
C6_Witness ==
    /\ last.op = "mmap"
    /\ last.res.err = "AddressAlreadyMapped"
    /\ last.res.va > last.addr
    /\ last.addr \notin DOMAIN mapping

\* C7: when a page of [addr, addr+size) is not mapped, munmap fails with
\* AddressNotMapped of the lowest such page and changes nothing: the mapped
\* pages of the range stay mapped with their contents, no frame is freed.
C7_MunmapAllOrNothing ==
    [][(last'.op = "munmap" /\ PagesOf(last'.addr, last'.size) \ DOMAIN mapping # {}) =>
          /\ last'.res = Fault("AddressNotMapped",
                               SetMin(PagesOf(last'.addr, last'.size) \ DOMAIN mapping))
          /\ pages' = pages
          /\ mapping' = mapping]_vars

\* a failed munmap whose first page is mapped and materialized, and still is
C7_Witness ==
    /\ last.op = "munmap"
    /\ last.res.err = "AddressNotMapped"
    /\ last.res.va > last.addr
    /\ last.addr \in DOMAIN mapping
    /\ ZERO \notin mapping[last.addr].flags
    /\ Allocated(pages) = 1

\* C8: a read whose address lies in an unmapped page fails with
\* AddressNotMapped(addr), in a mapped page without READ with
\* AddressNotReadable(addr); a write to an unmapped page fails with
\* AddressNotMapped(addr), to a mapped page without WRITE with
\* AddressNotWritable(addr), and the rejected write changes nothing.
C8_FaultClassification ==
    [][(last'.op \in ReadOps \cup WriteOps) =>
          LET a == last'.addr
              mapped == page_number(a) \in DOMAIN mapping
          IN /\ ~mapped => last'.res = Fault("AddressNotMapped", a)
             /\ (mapped /\ last'.op \in ReadOps /\ ~HasPerms(mapping, a, {PERM_R})) =>
                    last'.res = Fault("AddressNotReadable", a)
             /\ (mapped /\ last'.op \in WriteOps /\ ~HasPerms(mapping, a, {PERM_W})) =>
                    /\ last'.res = Fault("AddressNotWritable", a)
                    /\ pages' = pages
                    /\ mapping' = mapping
                    /\ Allocated(pages') = Allocated(pages)]_vars

\* a write rejected on a lazy-zero page that is readable and not writable
C8_Witness ==
    /\ last.op \in WriteOps
    /\ last.res = Fault("AddressNotWritable", last.addr)
    /\ HasPerms(mapping, last.addr, {ZERO, PERM_R})
    /\ read_uN(pages, mapping, page_number(last.addr), 1) = OkBuf(<<0>>)

\* write_u8 of the bytes of buf at addr, addr+1, ..., stopping at a fault
RECURSIVE WriteBytewise(_, _, _, _)
WriteBytewise(pf, m, addr, buf) ==
    IF Len(buf) = 0 THEN Out(pf, m, OkRes)
    ELSE LET o == write_uN(pf, m, addr, 1, buf[1])
         IN IF o.res.ok THEN WriteBytewise(o.pages, o.mapping, addr + 1, Tail(buf))
            ELSE o

\* read_u8 at addr, ..., addr+n-1: the bytes in address order, or the first fault
RECURSIVE ReadBytewise(_, _, _, _)
ReadBytewise(pf, m, addr, n) ==
    IF n = 0 THEN OkBuf(<<>>)
    ELSE LET r == read_uN(pf, m, addr, 1)
             rest == ReadBytewise(pf, m, addr + 1, n - 1)
         IN IF ~r.ok THEN r
            ELSE IF ~rest.ok THEN rest
            ELSE OkBuf(<<r.val>> \o rest.buf)

\* little-endian composition: byte i has weight 256^i
RECURSIVE Compose(_, _)
Compose(bytes, i) ==
    IF i > Len(bytes) THEN 0 ELSE bytes[i] * Pow256(i - 1) + Compose(bytes, i + 1)

\* the bytes of value, lowest first
BytesOf(value, n) == [i \in 1..n |-> (value \div Pow256(i - 1)) % 256]

\* the result of read_w built from the byte reads: their bytes and the
\* composition of them, or the first fault
ComposedRead(pf, m, addr, n) ==
    LET br == ReadBytewise(pf, m, addr, n)
    IN IF br.ok THEN [br EXCEPT !.val = Compose(br.buf, 1)] ELSE br

\* C9: for an access that straddles the boundary of two mapped pages,
\* write_w(addr, v) leaves the MMU in the state (mapping table and frame
\* pool, hence every read) that write_u8 of v's little-endian bytes at addr,
\* addr+1, ... leaves it in, and read_w(addr)
\* returns the little-endian composition of read_u8(addr), read_u8(addr+1), ...
C9_SplitEqualsBytewise ==
    [][(/\ last'.op \in {"read_u", "write_u"}
        /\ Straddles(last'.addr, last'.size)
        /\ page_number(last'.addr) \in DOMAIN mapping
        /\ page_number(last'.addr) + PAGE_SIZE \in DOMAIN mapping) =>
          /\ last'.op = "write_u" =>
                Out(pages', mapping', last'.res) =
                    WriteBytewise(pages, mapping, last'.addr,
                                  BytesOf(last'.value, last'.size))
          /\ last'.op = "read_u" =>
                last'.res = ComposedRead(pages, mapping, last'.addr, last'.size)]_vars

\* a straddling write that succeeded with its two pages in two frames
C9_Witness ==
    /\ last.op = "write_u"
    /\ Straddles(last.addr, last.size)
    /\ last.res.ok
    /\ Allocated(pages) = 2
    /\ read_uN(pages, mapping, last.addr, last.size).val = last.value

\* the clear bits of the allocation bitmap, as PFNs
FreePFNs(pf) == {i - 1 : i \in {j \in 1..Len(pf.allocation_bitmap) : ~pf.allocation_bitmap[j]}}

\* C10: allocate returns the smallest PFN whose bit is clear, or the pool
\* length when every bit is set (the pool then grows by one); it sets that
\* bit and the frame returned is all zero.
C10_AllocateLowestFree ==
    [][last'.op = "allocate" =>
          LET pfn == last'.addr
          IN /\ pfn = (IF FreePFNs(pages) # {} THEN SetMin(FreePFNs(pages))
                       ELSE Len(pages.frames))
             /\ Len(pages'.frames) = (IF FreePFNs(pages) # {} THEN Len(pages.frames)
                                      ELSE Len(pages.frames) + 1)
             /\ Len(pages'.allocation_bitmap) = Len(pages'.frames)
             /\ pages'.allocation_bitmap[pfn + 1]
             /\ index(pages', pfn) = EMPTY_PAGE]_vars

\* allocate reused PFN 0, freed after a store into it, while PFN 1 is in use
C10_Witness ==
    /\ last.op = "allocate"
    /\ last.addr = 0
    /\ Len(pages.frames) >= 2
    /\ pages.allocation_bitmap[2]
    /\ index(pages, 1) # EMPTY_PAGE

\* the byte addresses of the range of call c
RangeOf(c) == c.addr .. (c.addr + c.size - 1)

\* the byte addresses of page page_va
BytesOfPage(page_va) == page_va .. (page_va + PAGE_SIZE - 1)

\* C11 (as stated): a successful munmap(addr, size) removes exactly the pages
\* of [addr, addr+size): every access to them then fails with
\* AddressNotMapped, and every mapped page outside the range keeps its
\* mapping entry and permissions and reads, byte for byte, as before.
C11_MunmapRemovesExactly ==
    [][(last'.op = "munmap" /\ last'.res.ok) =>
          /\ DOMAIN mapping' = (DOMAIN mapping) \ PagesOf(last'.addr, last'.size)
          /\ \A a \in RangeOf(last') :
                /\ read_uN(pages', mapping', a, 1) = Fault("AddressNotMapped", a)
                /\ write_uN(pages', mapping', a, 1, 17).res = Fault("AddressNotMapped", a)
          /\ \A va \in DOMAIN mapping' :
                /\ mapping'[va] = mapping[va]
                /\ \A a \in BytesOfPage(va) :
                      read_uN(pages', mapping', a, 1) = read_uN(pages, mapping, a, 1)]_vars

\* the part of C11 that is about the state: the entries and the frame
\* contents of the pages outside the range
C11_StateOutsideRangeKept ==
    [][(last'.op = "munmap" /\ last'.res.ok) =>
          /\ DOMAIN mapping' = (DOMAIN mapping) \ PagesOf(last'.addr, last'.size)
          /\ \A va \in DOMAIN mapping' :
                /\ mapping'[va] = mapping[va]
                /\ PageContents(pages', mapping', va) = PageContents(pages, mapping, va)]_vars

\* the page after the one of addr
Boundary(addr) == page_number(addr) + PAGE_SIZE

\* the bytes of the mapped pages of m, by byte address
ByteAt(pf, m, a) == PageContents(pf, m, page_number(a))[page_offset(a) + 1]

\* C12: when a write that straddles a page boundary, its first page being
\* writable, faults on its second page (unmapped or not writable), the fault
\* carries the second page's address, the first page is materialized and
\* holds the first-half bytes, no byte outside [addr, boundary) of any page is
\* changed, and the entry of the second page (and of every page but the
\* first) is unchanged.
C12_SplitWriteFaultKeepsOtherBytes ==
    [][(/\ last'.op = "write_u"
        /\ Straddles(last'.addr, last'.size)
        /\ HasPerms(mapping, last'.addr, {PERM_W})
        /\ ~HasPerms(mapping, Boundary(last'.addr), {PERM_W})) =>
          LET addr == last'.addr
              first == page_number(addr)
              second == Boundary(addr)
          IN /\ last'.res = Fault(IF second \in DOMAIN mapping
                                  THEN "AddressNotWritable"
                                  ELSE "AddressNotMapped", second)
             /\ DOMAIN mapping' = DOMAIN mapping
             /\ \A va \in (DOMAIN mapping) \ {first} : mapping'[va] = mapping[va]
             /\ ZERO \notin mapping'[first].flags
             /\ mapping'[first].flags = mapping[first].flags \ {ZERO, COW}
             /\ \A a \in addr .. (second - 1) :
                   ByteAt(pages', mapping', a) = last'.buf[a - addr + 1]
             /\ \A va \in DOMAIN mapping : \A a \in BytesOfPage(va) \ (addr .. (second - 1)) :
                   ByteAt(pages', mapping', a) = ByteAt(pages, mapping, a)]_vars

\* a straddling write that faulted on its read-only lazy-zero second page
\* after it materialized the first page and stored the first half there
C12_Witness ==
    /\ last.op = "write_u"
    /\ Straddles(last.addr, last.size)
    /\ last.res = Fault("AddressNotWritable", Boundary(last.addr))
    /\ ZERO \notin mapping[page_number(last.addr)].flags
    /\ ZERO \in mapping[Boundary(last.addr)].flags
    /\ ByteAt(pages, mapping, last.addr) = last.buf[1]
    /\ last.buf[1] # 0

\* C13: after the clone, every mmap, munmap and write applied to the
\* instance cloned from leaves the clone as it was at the clone: its mapping
\* table and flags, its frames and its allocation bitmap (the readers take
\* &self and compute their result from these alone, so every read on the
\* clone returns what it returned at the clone).
C13_CloneIndependent ==
    [][(twin.cloned /\ last'.op \in {"mmap", "munmap"} \cup WriteOps) =>
          /\ deref(twin', pages', mapping') = deref(twin, pages, mapping)
          /\ deref(twin', pages', mapping') = [pages |-> twin.pages, mapping |-> twin.mapping]]_vars

\* the instance cloned from has since unmapped a page the clone still maps
\* with a frame that holds data, and has frames whose contents differ
C13_Witness ==
    /\ twin.cloned
    /\ last.op = "munmap" /\ last.res.ok
    /\ \E va \in DOMAIN twin.mapping :
          /\ va \notin DOMAIN mapping
          /\ PageContents(twin.pages, twin.mapping, va) # EMPTY_PAGE
    /\ pages # twin.pages

\* C14: a successful mmap(addr, size, perms) leaves the frame pool (frames
\* and allocation bitmap) as it was, inserts for every page of the range the
\* entry (sentinel PFN, ZERO | perms) with no other flag, and leaves the
\* other entries alone.
C14_MmapConsumesNoFrame ==
    [][(last'.op = "mmap" /\ last'.res.ok) =>
          /\ pages' = pages
          /\ DOMAIN mapping' = (DOMAIN mapping) \cup PagesOf(last'.addr, last'.size)
          /\ \A va \in PagesOf(last'.addr, last'.size) :
                /\ mapping'[va].pfn = INVALID_PFN
                /\ mapping'[va].flags = {ZERO} \cup last'.perms
                /\ COW \notin mapping'[va].flags
          /\ \A va \in DOMAIN mapping : mapping'[va] = mapping[va]]_vars

\* a two-page mmap that succeeded next to a page that owns a written frame
C14_Witness ==
    /\ last.op = "mmap" /\ last.res.ok
    /\ last.size = 2 * PAGE_SIZE
    /\ Allocated(pages) = 1
    /\ \E i \in 1..Len(pages.frames) : pages.frames[i] # EMPTY_PAGE
    /\ \A va \in PagesOf(last.addr, last.size) :
          mapping[va] = Entry(INVALID_PFN, {ZERO} \cup last.perms)

\* the byte addresses of the mapped pages of m
MappedBytes(m) == {a \in Addrs : page_number(a) \in DOMAIN m}

\* C15: a successful write of len bytes at addr changes what reads observe
\* only in [addr, addr+len): at every other byte address of every mapped
\* page, read_u8 returns after the write what it returned before it, and the
\* byte held there is the same.
C15_WriteIsolation ==
    [][(last'.op \in WriteOps /\ last'.res.ok) =>
          /\ DOMAIN mapping' = DOMAIN mapping
          /\ \A a \in MappedBytes(mapping) \ RangeOf(last') :
                /\ read_uN(pages', mapping', a, 1) = read_uN(pages, mapping, a, 1)
                /\ ByteAt(pages', mapping', a) = ByteAt(pages, mapping, a)]_vars

\* a successful write into a page that held data, next to a page that holds
\* data as well
C15_Witness ==
    /\ last.op \in WriteOps /\ last.res.ok
    /\ \E a \in MappedBytes(mapping) \ RangeOf(last) :
          /\ page_number(a) # page_number(last.addr)
          /\ page_number(a) # page_number(last.addr + last.size - 1)
          /\ ByteAt(pages, mapping, a) # 0
    /\ nwrites = 2

\* C16: in every reachable state an entry with ZERO set has the sentinel
\* PFN, an entry with ZERO clear has a PFN below the pool length whose
\* allocation bit is set, and no assertion of read or munmap has fired.
C16_FlagPfnInvariant ==
    /\ \A va \in DOMAIN mapping :
          IF ZERO \in mapping[va].flags
          THEN mapping[va].pfn = INVALID_PFN
          ELSE /\ mapping[va].pfn < Len(pages.frames)
               /\ mapping[va].pfn < Len(pages.allocation_bitmap)
               /\ pages.allocation_bitmap[mapping[va].pfn + 1]
    /\ last.res.err # "Panic"

\* a lazy-zero page mapped again after its frame was freed, next to a page
\* that owns frame 1, frame 0 being free
C16_Witness ==
    /\ last.op = "mmap" /\ last.res.ok
    /\ \E va \in DOMAIN mapping : ZERO \in mapping[va].flags
    /\ \E va \in DOMAIN mapping : ZERO \notin mapping[va].flags /\ mapping[va].pfn = 1
    /\ Len(pages.allocation_bitmap) = 2
    /\ ~pages.allocation_bitmap[1]

\* the pages of m that own a frame
Materialized(m) == {va \in DOMAIN m : m[va].pfn # INVALID_PFN}

FreeIn(pf, pfn) == pfn >= Len(pf.allocation_bitmap) \/ ~pf.allocation_bitmap[pfn + 1]

\* the pages a write at addr of len bytes probes for which the probe
\* succeeds: the page of addr and, on the split path after it, the next one
ProbedOk(m, addr, len) ==
    {va \in {page_number(addr)} \cup
            (IF is_split(addr, len) /\ HasPerms(m, addr, {PERM_W})
             THEN {page_number(addr) + PAGE_SIZE} ELSE {}) :
        HasPerms(m, va, {PERM_W})}

\* C18, the steps: a write materializes exactly the lazy-zero pages it
\* probes with success, one frame each, taken from the free ones, holding
\* zeros (the snapshot) where the write stored nothing, the entry rewritten
\* to that PFN with ZERO and COW cleared and READ/WRITE/EXEC as they were;
\* the entry of a page with neither flag is left as it is (no second frame,
\* same permissions); and no other operation raises the number of allocated
\* frames.
C18_Steps ==
    /\ last'.op \in WriteOps =>
          LET lazy == {va \in ProbedOk(mapping, last'.addr, last'.size) :
                          ZERO \in mapping[va].flags}
          IN /\ DOMAIN mapping' = DOMAIN mapping
             /\ Allocated(pages') = Allocated(pages) + Cardinality(lazy)
             /\ \A va \in (DOMAIN mapping) \ lazy : mapping'[va] = mapping[va]
             /\ \A va \in lazy :
                   /\ mapping'[va].flags = mapping[va].flags \ {ZERO, COW}
                   /\ mapping'[va].flags \cap {PERM_R, PERM_W, PERM_X} =
                         mapping[va].flags \cap {PERM_R, PERM_W, PERM_X}
                   /\ FreeIn(pages, mapping'[va].pfn)
                   /\ ~FreeIn(pages', mapping'[va].pfn)
                   /\ \A a \in BytesOfPage(va) \ RangeOf(last') :
                         ByteAt(pages', mapping', a) = 0
    /\ last'.op \notin WriteOps => Allocated(pages') <= Allocated(pages)

\* C18, the COW branch, which no entry made by mmap reaches: on a writable
\* page that owns a frame, with COW set in its entry, the write probe
\* allocates one frame, copies the page's frame into it and rewrites the
\* entry to the new PFN with COW cleared and the other flags as they were.
C18_CowProbe ==
    \A va \in Materialized(mapping) :
        PERM_W \in mapping[va].flags =>
            LET e == mapping[va]
                p == probe_write(pages, [mapping EXCEPT ![va].flags = @ \cup {COW}], va)
            IN /\ p.res.ok
               /\ Allocated(p.pages) = Allocated(pages) + 1
               /\ FreeIn(pages, p.pfn)
               /\ index(p.pages, p.pfn) = index(pages, e.pfn)
               /\ index(p.pages, e.pfn) = index(pages, e.pfn)
               /\ p.mapping[va] = Entry(p.pfn, e.flags)
               /\ \A vb \in (DOMAIN mapping) \ {va} : p.mapping[vb] = mapping[vb]

\* C18: materialization is the only allocator after mapping and happens
\* once a page (C18_Steps at every step, C18_CowProbe in every state).
C18_MaterializeOnce == [][C18_Steps]_vars /\ []C18_CowProbe

\* a second write into the page the first write materialized: one frame
\* in all
C18_Witness ==
    /\ last.op \in WriteOps /\ last.res.ok
    /\ ~is_split(last.addr, last.size)
    /\ nwrites = 2 /\ nunmaps = 0
    /\ ZERO \notin mapping[page_number(last.addr)].flags
    /\ Len(pages.frames) = 1
    /\ Allocated(pages) = 1

\* C19: no read, succeeding or faulting, changes the mapping table, a flag,
\* a frame or the allocation bitmap; a read of a lazy-zero page allocates
\* nothing, leaves the page lazy-zero and, when it succeeds, returns zeros
\* for the bytes of that page.
C19_ReadsArePure ==
    [][last'.op \in ReadOps =>
          /\ pages' = pages
          /\ mapping' = mapping
          /\ HasPerms(mapping, last'.addr, {ZERO}) =>
                LET va == page_number(last'.addr)
                    n == IF last'.size <= PAGE_SIZE - page_offset(last'.addr)
                         THEN last'.size
                         ELSE PAGE_SIZE - page_offset(last'.addr)
                IN /\ Allocated(pages') = Allocated(pages)
                   /\ mapping'[va] = Entry(INVALID_PFN, mapping[va].flags)
                   /\ last'.res.ok => SubSeq(last'.res.buf, 1, n) = Zeros(n)]_vars

\* a read that returned zeros from a page still lazy-zero, next to a page
\* that a write materialized
C19_Witness ==
    /\ last.op \in ReadOps /\ last.res.ok
    /\ HasPerms(mapping, last.addr, {ZERO, PERM_R, PERM_W})
    /\ mapping[page_number(last.addr)].pfn = INVALID_PFN
    /\ last.res.buf = Zeros(last.size)
    /\ Allocated(pages) = 1

\* every frame whose allocation bit is clear is entirely zero
FreeFramesZero ==
    \A i \in 1..Len(pages.frames) :
        (i <= Len(pages.allocation_bitmap) /\ ~pages.allocation_bitmap[i]) =>
            pages.frames[i] = EMPTY_PAGE

\* C20, the steps: the pages a successful mmap inserts hold zeros, and no
\* read_u8 of them returns anything but zero; a page a write materializes
\* (into a new or a reused frame) holds zeros wherever that write stored
\* nothing.
C20_Steps ==
    /\ (last'.op = "mmap" /\ last'.res.ok) =>
          \A va \in PagesOf(last'.addr, last'.size) :
              /\ PageContents(pages', mapping', va) = EMPTY_PAGE
              /\ \A a \in BytesOfPage(va) :
                    LET r == read_uN(pages', mapping', a, 1)
                    IN r.ok => r.val = 0
    /\ last'.op \in WriteOps =>
          \A va \in DOMAIN mapping' :
              (ZERO \in mapping[va].flags /\ ZERO \notin mapping'[va].flags) =>
                  \A a \in BytesOfPage(va) \ RangeOf(last') :
                      ByteAt(pages', mapping', a) = 0

\* C20: in every reachable state every frame whose allocation bit is clear
\* is entirely zero; so a page mapped after a written page was unmapped
\* holds no stale byte, and neither does a page materialized later.
C20_NoStaleData == []FreeFramesZero /\ [][C20_Steps]_vars

\* a page mapped after the only written page was unmapped: its frame is
\* free and zero again
C20_Witness ==
    /\ last.op = "mmap" /\ last.res.ok
    /\ nwrites = 1 /\ nunmaps = 1
    /\ Len(pages.frames) = 1
    /\ ~pages.allocation_bitmap[1]
    /\ pages.frames[1] = EMPTY_PAGE
    /\ ZERO \in mapping[last.addr].flags

\* the mapping entries that own a frame
Owners(m) == {va \in DOMAIN m : ZERO \notin m[va].flags}

\* C21: in every reachable state the number of set bits of the allocation
\* bitmap equals the number of mapping entries whose ZERO flag is clear,
\* and frames and allocation_bitmap have the same length; hence with no
\* page mapped no frame is marked allocated.
C21_NoFrameLeak ==
    /\ Allocated(pages) = Cardinality(Owners(mapping))
    /\ Len(pages.frames) = Len(pages.allocation_bitmap)
    /\ (DOMAIN mapping = {} => Allocated(pages) = 0)

\* a split write has failed on its second page after it materialized the
\* first one: the frame it allocated is owned by the first page
C21_Witness ==
    /\ last.op \in WriteOps /\ ~last.res.ok
    /\ last.res.va = Boundary(last.addr)
    /\ Owners(mapping) = {page_number(last.addr)}
    /\ Allocated(pages) = 1

\* the PFN is in range and its allocation bit is set
IsAllocated(pf, pfn) ==
    /\ pfn < Len(pf.allocation_bitmap)
    /\ pf.allocation_bitmap[pfn + 1]

\* C22: reading or writing a frame through the index operators of the pool
\* with a PFN that is out of range or whose allocation bit is clear is a
\* fatal halt that accesses nothing, never a successful access.
C22_IndexCheckedAgainstBitmap ==
    [][(last'.op \in {"index", "index_mut"} /\ ~IsAllocated(pages, last'.addr)) =>
          (last'.res.err = "Panic" /\ pages' = pages)]_vars

====
